---- MODULE Spec2Model ----
(***************************************************************************)
(* Model of gva.py: the incremental update of data/gva_master.csv from a   *)
(* freshly downloaded yearly export.  One run of run_automation is         *)
(* download_latest_data, find_new_incidents (with read_ids and             *)
(* geocode_incidents), update_master_file, cleanup_temp_files and the      *)
(* final report.  CSV rows are functions from column names to cell text,   *)
(* as csv.DictReader yields them.                                          *)
(***************************************************************************)
EXTENDS Integers, Sequences, FiniteSets, TLC

\* ---------------------------------------------------------------- bounds
MaxSnap == 2       \* rows in one downloaded snapshot
MaxRuns == 2       \* runs of run_automation in one behaviour

\* ------------------------------------------------------- cells and columns
None == "<None>"   \* DictReader's restval for a cell a short row lacks

IdCol    == "Incident ID"
CityCol  == "City Or County"
StateCol == "State"
LatCol   == "latitude"
LonCol   == "longitude"

FullHeader   == {IdCol, CityCol, StateCol, LatCol, LonCol}
LegacyHeader == {IdCol, CityCol, StateCol}
NoHeader     == {}

\* str.strip() on the cell texts the model uses
strip(s) ==
    CASE s = " C" -> "C"
      [] s = " "  -> ""
      [] OTHER    -> s

Row(id, city, state) ==
    (IdCol :> id) @@ (CityCol :> city) @@ (StateCol :> state)

MasterRow(id, city, state, lat, lon) ==
    Row(id, city, state) @@ (LatCol :> lat) @@ (LonCol :> lon)

\* rows the upstream export can hold
RowPool ==
    { Row("B", "Austin", "TX"),
      Row("C", "Austin", "TX"),
      Row(" C", "", "TX"),
      Row("", "Austin", "TX"),
      Row(" ", "Austin", "TX"),
      Row(None, "Austin", None) }

RECURSIVE SeqsUpTo(_, _)
SeqsUpTo(S, n) ==
    IF n = 0 THEN { <<>> }
    ELSE LET shorter == SeqsUpTo(S, n - 1)
         IN  shorter \cup { Append(s, x) : s \in { t \in shorter : Len(t) = n - 1 }, x \in S }

\* rows of an export whose header has no Incident ID column
NoIdPool == { (CityCol :> "Austin") @@ (StateCol :> "TX") }

\* the files the exporter can leave: every row of a file has the file's columns
Snapshots == SeqsUpTo(RowPool, MaxSnap) \cup SeqsUpTo(NoIdPool, MaxSnap)

\* ------------------------------------------------------------ csv helpers
Range(s) == { s[k] : k \in 1..Len(s) }

\* read_ids with the strip() of line 128 left out
read_ids_unstripped(exists, rows) ==
    IF ~exists THEN {}
    ELSE { r[IdCol] : r \in { q \in Range(rows) :
                               /\ IdCol \in DOMAIN q
                               /\ q[IdCol] # None
                               /\ q[IdCol] # "" } }

\* read_ids: the set of stripped, truthy Incident ID cells of a file
read_ids(exists, rows) ==
    IF ~exists THEN {}
    ELSE { strip(r[IdCol]) : r \in { q \in Range(rows) :
                                      /\ IdCol \in DOMAIN q
                                      /\ q[IdCol] # None
                                      /\ q[IdCol] # "" } }

\* dict.setdefault
setdefault(row, key, val) ==
    IF key \in DOMAIN row THEN row ELSE row @@ (key :> val)

\* dict item assignment
setitem(row, key, val) ==
    [k \in DOMAIN row \cup {key} |-> IF k = key THEN val ELSE row[k]]

\* csv.DictWriter.writerow with extrasaction='raise', restval='':
\* the row as it is read back, or a ValueError
writable(header, row) == DOMAIN row \subseteq header

csvRow(header, row) ==
    [k \in header |-> IF k \in DOMAIN row /\ row[k] # None THEN row[k] ELSE ""]

\* the rows that reach the file before the first row that raises
RECURSIVE writeRows(_, _)
writeRows(header, rows) ==
    IF rows = <<>> THEN <<>>
    ELSE IF ~writable(header, Head(rows)) THEN <<>>
    ELSE <<csvRow(header, Head(rows))>> \o writeRows(header, Tail(rows))

allWritable(header, rows) == \A k \in 1..Len(rows) : writable(header, rows[k])

\* ------------------------------------------------------------------ state
VARIABLES
    masterExists,     \* data/gva_master.csv is a file
    masterHeader,     \* its header row (the empty set: no header row)
    masterRows,       \* its data rows, top first
    tempFile,         \* a temp/gvatemp_<year>_*.csv file is on disk
    snapReadable,     \* the downloaded file can be opened and decoded
    snapshot,         \* the rows of the downloaded file
    pc,               \* position inside run_automation
    temp_csv,         \* download_latest_data's return value is a path
    existing_ids,     \* find_new_incidents: existing_ids
    new_incidents,    \* find_new_incidents / run_automation: new_incidents
    i,                \* find_new_incidents: index of the next snapshot row
    geocoded_incidents, \* geocode_incidents: geocoded_incidents
    j,                \* geocode_incidents: index of the next incident
    result,           \* run_automation's return value: "none", "True", "False"
    runs,             \* runs started so far
    report,           \* the counts of the "Update completed" log line
    oldHeader,        \* header of the master file when the run started
    oldRows,          \* rows of the master file when the run started
    oldExists,        \* the master file existed when the run started
    again,            \* the export is unchanged since the last, successful, run
    trail             \* what the run has done so far, in order

vars == << masterExists, masterHeader, masterRows, tempFile, snapReadable, snapshot,
           pc, temp_csv, existing_ids, new_incidents, i, geocoded_incidents, j,
           result, runs, report, oldHeader, oldRows, oldExists, again, trail >>

masterVars == << masterExists, masterHeader, masterRows >>
oldVars    == << oldHeader, oldRows, oldExists >>

\* master files a first run can meet: no two rows share an identifier
InitMasters ==
    { << TRUE, FullHeader, <<>> >>,
      << TRUE, FullHeader, << MasterRow("A", "Boston", "MA", "42.3", "-71.0") >> >>,
      << TRUE, FullHeader, << MasterRow("B", "Austin", "TX", "", ""),
                              MasterRow("A", "Boston", "MA", "42.3", "-71.0") >> >>,
      << TRUE, LegacyHeader, << Row("B", "Austin", "TX"), Row("A", "Boston", "MA") >> >>,
      << TRUE, NoHeader, <<>> >>,
      << FALSE, NoHeader, <<>> >> }

NoReport == [new |-> -1, total |-> -1]

Init ==
    /\ \E m \in InitMasters :
          /\ masterExists = m[1]
          /\ masterHeader = m[2]
          /\ masterRows = m[3]
          /\ oldExists = m[1]
          /\ oldHeader = m[2]
          /\ oldRows = m[3]
    /\ tempFile = FALSE
    /\ snapReadable = TRUE
    /\ snapshot = <<>>
    /\ pc = "download"
    /\ temp_csv = FALSE
    /\ existing_ids = {}
    /\ new_incidents = <<>>
    /\ i = 1
    /\ geocoded_incidents = <<>>
    /\ j = 1
    /\ result = "none"
    /\ runs = 1
    /\ report = NoReport
    /\ again = FALSE
    /\ trail = <<>>

\* --------------------------------------------------------------- actions

\* run_automation, lines 236-238: the fetch, and the early return on failure
download_latest_data ==
    /\ pc = "download"
    /\ \/ /\ temp_csv' = FALSE
          /\ result' = "False"
          /\ pc' = "done"
          /\ trail' = Append(trail, "fetch")
          /\ UNCHANGED << tempFile, snapReadable, snapshot >>
       \/ \E snap \in Snapshots, readable \in BOOLEAN :
             /\ readable \/ snap = <<>>    \* no row of an unreadable file is seen
             /\ again => snap = snapshot /\ readable = snapReadable
             /\ temp_csv' = TRUE
             /\ tempFile' = TRUE
             /\ snapshot' = snap
             /\ snapReadable' = readable
             /\ pc' = "find"
             /\ trail' = Append(trail, "fetch")
             /\ UNCHANGED result
    /\ UNCHANGED << masterVars, oldVars, existing_ids, new_incidents, i,
                    geocoded_incidents, j, runs, report, again >>

\* find_new_incidents, lines 136-146: the master file check, read_ids, and
\* opening the downloaded file
find_begin ==
    /\ pc = "find"
    /\ IF ~masterExists
       THEN /\ new_incidents' = <<>>
            /\ pc' = "merge"
            /\ UNCHANGED existing_ids
       ELSE /\ existing_ids' = read_ids(masterExists, masterRows)
            /\ IF ~(tempFile /\ snapReadable)
               THEN /\ new_incidents' = <<>>
                    /\ pc' = "merge"
               ELSE /\ new_incidents' = <<>>
                    /\ pc' = "compare"
    /\ i' = 1
    /\ UNCHANGED << again, masterVars, oldVars, tempFile, snapReadable, snapshot, temp_csv,
                    geocoded_incidents, j, result, runs, report, trail >>

\* the test of line 150 on a stripped identifier
isNew(incident_id, ids) == incident_id # "" /\ incident_id \notin ids

\* compare_row with the look-up of line 45 made inside the loop of line 148,
\* on each row as soon as it is judged new
compare_row_geocoding ==
    /\ pc = "compare"
    /\ i <= Len(snapshot)
    /\ LET row == snapshot[i]
           cell == IF IdCol \in DOMAIN row THEN row[IdCol] ELSE ""
       IN  IF cell = None
           THEN \* None.strip() raises; the except clause returns []
                /\ new_incidents' = <<>>
                /\ pc' = "merge"
                /\ UNCHANGED i
           ELSE /\ new_incidents' =
                      IF isNew(strip(cell), existing_ids)
                      THEN Append(new_incidents,
                                  setdefault(setdefault(row, LatCol, ""), LonCol, ""))
                      ELSE new_incidents
                /\ i' = i + 1
                /\ UNCHANGED pc
    /\ trail' = LET row == snapshot[i]
                     cell == IF IdCol \in DOMAIN row THEN row[IdCol] ELSE ""
                 IN  IF cell # None /\ isNew(strip(cell), existing_ids)
                     THEN Append(Append(trail, "compare"), "geocode")
                     ELSE Append(trail, "compare")
    /\ UNCHANGED << again, masterVars, oldVars, tempFile, snapReadable, snapshot, temp_csv,
                    existing_ids, geocoded_incidents, j, result, runs, report >>

\* find_new_incidents, lines 148-156: one row of the downloaded file
compare_row ==
    /\ pc = "compare"
    /\ i <= Len(snapshot)
    /\ LET row == snapshot[i]
           cell == IF IdCol \in DOMAIN row THEN row[IdCol] ELSE ""
       IN  IF cell = None
           THEN \* None.strip() raises; the except clause returns []
                /\ new_incidents' = <<>>
                /\ pc' = "merge"
                /\ UNCHANGED i
           ELSE /\ new_incidents' =
                      IF isNew(strip(cell), existing_ids)
                      THEN Append(new_incidents,
                                  setdefault(setdefault(row, LatCol, ""), LonCol, ""))
                      ELSE new_incidents
                /\ i' = i + 1
                /\ UNCHANGED pc
    /\ trail' = Append(trail, "compare")
    /\ UNCHANGED << again, masterVars, oldVars, tempFile, snapReadable, snapshot, temp_csv,
                    existing_ids, geocoded_incidents, j, result, runs, report >>

\* find_new_incidents, lines 158-163: the end of the loop
find_end ==
    /\ pc = "compare"
    /\ i > Len(snapshot)
    /\ pc' = IF new_incidents # <<>> THEN "geocode" ELSE "merge"
    /\ UNCHANGED << again, masterVars, oldVars, tempFile, snapReadable, snapshot, temp_csv,
                    existing_ids, new_incidents, i, geocoded_incidents, j, result,
                    runs, report, trail >>

\* geocode_incidents, lines 26-36 and 73-79: the geopy import and the geolocator
geocode_begin ==
    /\ pc = "geocode"
    /\ IF new_incidents = <<>>
       THEN /\ pc' = "merge"
            /\ UNCHANGED << geocoded_incidents, j >>
       ELSE \E available \in BOOLEAN :
               /\ pc' = IF available THEN "geoloop" ELSE "merge"
               /\ geocoded_incidents' = <<>>
               /\ j' = 1
    /\ UNCHANGED << again, masterVars, oldVars, tempFile, snapReadable, snapshot, temp_csv,
                    existing_ids, new_incidents, i, result, runs, report, trail >>

GeoOutcomes == {"found", "notfound", "error"}

\* the body of the loop of lines 38-68 on one incident, the lookup answering `outcome`
geocoded(incident, outcome) ==
    LET city  == IF CityCol \in DOMAIN incident THEN incident[CityCol] ELSE ""
        state == IF StateCol \in DOMAIN incident THEN incident[StateCol] ELSE ""
    IN  IF city = None \/ state = None
        THEN setitem(setitem(incident, LatCol, ""), LonCol, "")
        ELSE IF strip(city) # "" /\ strip(state) # "" /\ outcome = "found"
        THEN setitem(setitem(incident, LatCol, "30.3"), LonCol, "-97.7")
        ELSE setitem(setitem(incident, LatCol, ""), LonCol, "")

\* whether line 45 is reached for the incident
lookedUp(incident) ==
    LET city  == IF CityCol \in DOMAIN incident THEN incident[CityCol] ELSE ""
        state == IF StateCol \in DOMAIN incident THEN incident[StateCol] ELSE ""
    IN  city # None /\ state # None /\ strip(city) # "" /\ strip(state) # ""

\* geocode_incidents, lines 38-68: one incident
geocode_one ==
    /\ pc = "geoloop"
    /\ j <= Len(new_incidents)
    /\ \E outcome \in IF lookedUp(new_incidents[j]) THEN GeoOutcomes ELSE {"notfound"} :
          LET incident == geocoded(new_incidents[j], outcome)
          IN  /\ new_incidents' = [new_incidents EXCEPT ![j] = incident]
              /\ geocoded_incidents' = Append(geocoded_incidents, incident)
    /\ j' = j + 1
    /\ trail' = IF lookedUp(new_incidents[j]) THEN Append(trail, "geocode") ELSE trail
    /\ UNCHANGED << again, masterVars, oldVars, tempFile, snapReadable, snapshot, temp_csv,
                    existing_ids, i, pc, result, runs, report >>

\* geocode_incidents, lines 70-71, and line 161 of find_new_incidents
geocode_end ==
    /\ pc = "geoloop"
    /\ j > Len(new_incidents)
    /\ new_incidents' = geocoded_incidents
    /\ pc' = "merge"
    /\ UNCHANGED << again, masterVars, oldVars, tempFile, snapReadable, snapshot, temp_csv,
                    existing_ids, i, geocoded_incidents, j, result, runs, report, trail >>

\* the rows update_master_file leaves in the file it has opened for writing
mergedRows(header, incidents, existing_data) ==
    writeRows(header, incidents \o existing_data)

\* update_master_file, and lines 242-244 of run_automation
update_master_file ==
    /\ pc = "merge"
    /\ IF new_incidents = <<>>
       THEN /\ pc' = "cleanup"
            /\ UNCHANGED << masterVars, result, trail >>
       ELSE IF ~masterExists \/ masterHeader = NoHeader
       THEN /\ pc' = "done"
            /\ result' = "False"
            /\ UNCHANGED << masterVars, trail >>
       ELSE /\ masterRows' = mergedRows(masterHeader, new_incidents, masterRows)
            /\ trail' = Append(trail, "write")
            /\ UNCHANGED << masterExists, masterHeader >>
            /\ IF allWritable(masterHeader, new_incidents \o masterRows)
               THEN /\ pc' = "cleanup"
                    /\ UNCHANGED result
               ELSE /\ pc' = "done"
                    /\ result' = "False"
    /\ UNCHANGED << again, oldVars, tempFile, snapReadable, snapshot, temp_csv, existing_ids,
                    new_incidents, i, geocoded_incidents, j, runs, report >>

\* cleanup_temp_files
cleanup_temp_files ==
    /\ pc = "cleanup"
    /\ tempFile' = FALSE
    /\ pc' = "report"
    /\ trail' = Append(trail, "cleanup")
    /\ UNCHANGED << again, masterVars, oldVars, snapReadable, snapshot, temp_csv, existing_ids,
                    new_incidents, i, geocoded_incidents, j, result, runs, report >>

\* run_automation, lines 248-251: the counts logged and the return value
run_report ==
    /\ pc = "report"
    /\ report' = [new |-> Len(new_incidents),
                  total |-> Cardinality(read_ids(masterExists, masterRows))]
    /\ result' = "True"
    /\ pc' = "done"
    /\ UNCHANGED << again, masterVars, oldVars, tempFile, snapReadable, snapshot, temp_csv,
                    existing_ids, new_incidents, i, geocoded_incidents, j, runs, trail >>

\* main, run again by the scheduler: the next run starts from the files on disk
main ==
    /\ pc = "done"
    /\ runs < MaxRuns
    /\ runs' = runs + 1
    /\ pc' = "download"
    /\ oldExists' = masterExists
    /\ oldHeader' = masterHeader
    /\ oldRows' = masterRows
    /\ \E same \in BOOLEAN :
          /\ same => result = "True" /\ temp_csv
          /\ again' = same
          /\ snapshot' = IF same THEN snapshot ELSE <<>>
          /\ snapReadable' = IF same THEN snapReadable ELSE TRUE
    /\ temp_csv' = FALSE
    /\ existing_ids' = {}
    /\ new_incidents' = <<>>
    /\ i' = 1
    /\ geocoded_incidents' = <<>>
    /\ j' = 1
    /\ result' = "none"
    /\ report' = NoReport
    /\ trail' = <<>>
    /\ UNCHANGED << masterVars, tempFile >>

Next ==
    \/ download_latest_data
    \/ find_begin
    \/ compare_row
    \/ find_end
    \/ geocode_begin
    \/ geocode_one
    \/ geocode_end
    \/ update_master_file
    \/ cleanup_temp_files
    \/ run_report
    \/ main

Spec == Init /\ [][Next]_vars

\* ------------------------------------------------------- claim vocabulary

\* the identifier of a record as the program compares it
IdOf(r) ==
    IF IdCol \notin DOMAIN r THEN ""
    ELSE IF r[IdCol] = None THEN None
    ELSE strip(r[IdCol])

\* the identifiers a sequence of records holds
Identifiers(rows) == { IdOf(rows[k]) : k \in 1..Len(rows) } \ {"", None}

\* the Incident ID cells of a sequence of records, as written
RawIds(rows) == { rows[k][IdCol] : k \in 1..Len(rows) }

\* a record without its enrichment fields
Core(r) == [k \in DOMAIN r \ {LatCol, LonCol} |-> r[k]]

CoreSeq(rows) == [k \in 1..Len(rows) |-> Core(rows[k])]

\* s is a sub-sequence of t, in t's order
RECURSIVE IsSubSeq(_, _)
IsSubSeq(s, t) ==
    IF s = <<>> THEN TRUE
    ELSE IF t = <<>> THEN FALSE
    ELSE IF Head(s) = Head(t) THEN IsSubSeq(Tail(s), Tail(t))
    ELSE IsSubSeq(s, Tail(t))

\* a record as a file with the given header holds it
Stored(header, r) ==
    [k \in header |-> IF k \in DOMAIN r /\ r[k] # None THEN r[k] ELSE ""]

StoredSeq(header, rows) == [k \in 1..Len(rows) |-> Stored(header, rows[k])]

\* update_master_file has been called with a non-empty list
MergeAttempted == pc \in {"cleanup", "report", "done"} /\ new_incidents # <<>>

\* ------------------------------------------------------------------ claims

\* C1: no two records of the master store share an Incident ID, before and
\* after every merge of every run: the number of distinct identifiers equals
\* the number of records.
C1_NoDuplicateIdentifiers ==
    Cardinality(RawIds(masterRows)) = Len(masterRows)

\* C2: when a run has ended, in success or in failure, every record that was
\* in the master store when the run started is still in it, with its
\* non-enrichment fields unchanged.
C2_NoLoss ==
    pc = "done" =>
        \A k \in 1..Len(oldRows) :
            \E m \in 1..Len(masterRows) : Core(masterRows[m]) = Core(oldRows[k])

\* C3: for a master store with a readable header and a non-empty list of new
\* records, update_master_file leaves the store equal to the new records in
\* their order followed by the old records in their order, under the old header.
C3_MergerContract ==
    (MergeAttempted /\ oldExists /\ oldHeader # NoHeader) =>
        /\ masterHeader = oldHeader
        /\ masterRows = StoredSeq(oldHeader, new_incidents) \o oldRows

\* C4: for a master file that is there and a downloaded file that can be
\* opened and decoded, the list find_new_incidents returns is a sub-sequence of
\* the snapshot in snapshot order, none of its records has an identifier of
\* the master store, and every snapshot record with a non-empty identifier
\* absent from the master store is in it.
C4_ReconcilerContract ==
    (pc = "merge" /\ masterExists /\ tempFile /\ snapReadable) =>
        /\ IsSubSeq(CoreSeq(new_incidents), snapshot)
        /\ \A k \in 1..Len(new_incidents) :
              /\ IdOf(new_incidents[k]) \notin {"", None}
              /\ IdOf(new_incidents[k]) \notin Identifiers(masterRows)
        /\ \A k \in 1..Len(snapshot) :
              (/\ IdOf(snapshot[k]) \notin {"", None}
               /\ IdOf(snapshot[k]) \notin Identifiers(masterRows))
              => \E m \in 1..Len(new_incidents) :
                    Core(new_incidents[m]) = snapshot[k]

\* every identifier of the snapshot is already in the master store the run
\* started from
AllKnown ==
    \A k \in 1..Len(snapshot) :
        IdOf(snapshot[k]) \in Identifiers(oldRows) \cup {"", None}

\* C5: a run whose snapshot holds only identifiers of the master store (the
\* empty snapshot included), and a run that fetches again the snapshot of the
\* successful run before it, judges no record new, leaves the master store as
\* it was, and succeeds reporting zero new incidents.
C5_NoOpMerge ==
    (temp_csv /\ (AllKnown \/ again)) =>
        /\ pc \in {"merge", "cleanup", "report", "done"} => new_incidents = <<>>
        /\ pc \notin {"geocode", "geoloop"}
        /\ masterExists = oldExists
        /\ masterHeader = oldHeader
        /\ masterRows = oldRows
        /\ pc = "done" => (result = "True" /\ report.new = 0)

\* C5 witness: a second run has ended on the snapshot of the run before it,
\* which had merged the record C, and the store is as that run left it.
C5_Witness ==
    /\ again
    /\ pc = "done"
    /\ result = "True"
    /\ "C" \in Identifiers(snapshot)
    /\ "C" \in Identifiers(masterRows)
    /\ masterRows = oldRows

\* C6: whatever the geocoding look-ups of a batch of N new records answer,
\* geocode_incidents returns the N records in order with their other fields
\* intact, and the run (on a master store with a header row) merges the N
\* records and succeeds.
C6_EnrichmentNonBlocking ==
    (pc = "done" /\ new_incidents # <<>> /\ oldHeader # NoHeader) =>
        /\ IsSubSeq(CoreSeq(new_incidents), snapshot)
        /\ result = "True"
        /\ Len(masterRows) = Len(oldRows) + Len(new_incidents)
        /\ SubSeq(masterRows, 1, Len(new_incidents))
              = StoredSeq(oldHeader, new_incidents)

\* C7: a run that starts without the master store file ends in failure, before
\* the fetch is invoked and before any merge write.
C7_MissingMasterFatal ==
    (pc = "done" /\ ~oldExists) =>
        /\ result = "False"
        /\ "fetch" \notin Range(trail)
        /\ "write" \notin Range(trail)

\* C8: a run whose fetch reports a snapshot path that cannot be read ends in
\* failure, and neither enrichment nor merge executes.
C8_UnreadableSnapshotFatal ==
    (pc = "done" /\ temp_csv /\ ~snapReadable) =>
        /\ result = "False"
        /\ "geocode" \notin Range(trail)
        /\ "write" \notin Range(trail)

\* C9: when a run whose fetch produced a temporary snapshot file has ended,
\* in success or in failure, the temporary file has been deleted.
C9_CleanupOnAllExitPaths ==
    (pc = "done" /\ temp_csv) => ~tempFile

\* C10: of the snapshot records that share an identifier absent from the
\* master store, find_new_incidents returns only the first: no two records of
\* the list it returns have the same identifier.
C10_FirstOccurrenceOnly ==
    pc = "merge" =>
        \A a, b \in 1..Len(new_incidents) :
            a # b => new_incidents[a][IdCol] # new_incidents[b][IdCol]

\* a record has no identifier: the cell is missing, empty or only whitespace
NoIdentifier(r) == IdOf(r) \in {"", None}

\* C11: a snapshot record whose Incident ID is missing, empty or only
\* whitespace is never returned by find_new_incidents and never appears in the
\* master store; the other records of its snapshot are still processed: those
\* with an identifier absent from the master store are returned.
C11_EmptyIdentifierRejected ==
    /\ \A k \in 1..Len(masterRows) : ~NoIdentifier(masterRows[k])
    /\ pc = "merge" => \A k \in 1..Len(new_incidents) : ~NoIdentifier(new_incidents[k])
    /\ (pc = "merge" /\ masterExists /\ tempFile /\ snapReadable) =>
          \A k, m \in 1..Len(snapshot) :
              (/\ NoIdentifier(snapshot[m])
               /\ ~NoIdentifier(snapshot[k])
               /\ IdOf(snapshot[k]) \notin Identifiers(masterRows))
              => \E n \in 1..Len(new_incidents) :
                    IdOf(new_incidents[n]) = IdOf(snapshot[k])

\* the phase of an event of the trail
Rank(e) ==
    CASE e = "fetch"   -> 1
      [] e = "compare" -> 2
      [] e = "geocode" -> 3
      [] e = "write"   -> 4
      [] e = "cleanup" -> 5

\* C12: in every run the fetch, the comparisons of snapshot rows, the
\* geocoding calls and the write of the master file happen in that order
\* without overlap: no row is compared before the fetch has returned, no
\* geocoding call is made before every snapshot row has been compared, and
\* the master file is not opened for writing before geocode_incidents has
\* been through every new record (or has given the batch back, geopy missing).
C12_PhaseOrdering ==
    /\ \A a, b \in 1..Len(trail) : a < b => Rank(trail[a]) <= Rank(trail[b])
    /\ \A a \in 1..Len(trail) : trail[a] = "fetch" <=> a = 1
    /\ "compare" \in Range(trail) => temp_csv
    /\ "geocode" \in Range(trail) => i > Len(snapshot)
    /\ "write" \in Range(trail) =>
          /\ pc \in {"cleanup", "report", "done"}
          /\ geocoded_incidents = new_incidents \/ geocoded_incidents = <<>>

\* C12 witness: a run has ended in which two rows were compared, a geocoding
\* call was made and the master file was written.
C12_Witness ==
    /\ pc = "done"
    /\ result = "True"
    /\ Len(snapshot) = 2
    /\ "geocode" \in Range(trail)
    /\ "write" \in Range(trail)
    /\ "cleanup" \in Range(trail)

\* C13: at the end of every successful run the reported number of new
\* incidents is the number of records the merge prepended to the master
\* store, and the reported total is the number of records now in the store.
C13_RunReport ==
    (pc = "done" /\ result = "True") =>
        /\ report.new = Len(masterRows) - Len(oldRows)
        /\ report.total = Len(masterRows)
====
